---- MODULE Spec2Model ----
(***************************************************************************)
(* A model of snist/dataset.py: the SNIST dataset class.  The state is the *)
(* directory tree under root/SNIST (raw files, processed entries), the     *)
(* contents the six URLs serve, and for every Dataset object its fields    *)
(* and its position in __init__ / download().                              *)
(***************************************************************************)
EXTENDS Integers, Sequences, FiniteSets, TLC

(* ---------------------------------------------------------------- bounds *)

\* Largest sample count N of a served array.
MaxN == 2
\* Largest value of the constructor's noise argument that is tried (0..MaxNoise).
MaxNoise == 3

\* Height and width of one served amplitude sample, length of one velocity sample.
H == 2
W == 3
VelLen == 2

(* ------------------------------------------------------ program constants *)

\* SNIST.urls, by their last path segment (url.rpartition('/')[2]), in list order.
urls == << "train_amplitudes.npy", "train_velocities.npy", "test_amplitudes.npy",
           "test_velocities.npy", "test_amplitudes_noise_1.npy",
           "test_amplitudes_noise_2.npy" >>

training_file == "training.pt"
test_file_noise_0 == "test_noise_0.pt"
test_file_noise_1 == "test_noise_1.pt"
test_file_noise_2 == "test_noise_2.pt"

\* The processed entries, in the order download() writes them.
entries == << training_file, test_file_noise_0, test_file_noise_1, test_file_noise_2 >>

\* sources with test_set_noise_1 given the train velocities.
sources_WrongVelocities ==
    << << "train_amplitudes.npy", "train_velocities.npy" >>,
       << "test_amplitudes.npy", "test_velocities.npy" >>,
       << "test_amplitudes_noise_1.npy", "train_velocities.npy" >>,
       << "test_amplitudes_noise_2.npy", "test_velocities.npy" >> >>

\* The raw files download() reads for the j-th processed entry: (amplitudes, velocities).
sources == << << "train_amplitudes.npy", "train_velocities.npy" >>,
              << "test_amplitudes.npy", "test_velocities.npy" >>,
              << "test_amplitudes_noise_1.npy", "test_velocities.npy" >>,
              << "test_amplitudes_noise_2.npy", "test_velocities.npy" >> >>

RawNames == { urls[k] : k \in 1..Len(urls) }
EntryNames == { entries[j] : j \in 1..Len(entries) }
AmpNames == { sources[j][1] : j \in 1..Len(sources) }

\* The Dataset objects: object 1 is used alone, object 2 beside it.
Procs == {1, 2}

(* -------------------------------------------------------- values on disk *)

Absent == [kind |-> "absent"]
\* A file that exists and holds no complete serialization (open(.., 'wb') before
\* torch.save has run, or a damaged file).
Truncated == [kind |-> "truncated"]
Unset == [kind |-> "unset"]
Error(name) == [kind |-> "error", name |-> name]

RECURSIVE Prod(_)
Prod(s) == IF s = << >> THEN 1 ELSE Head(s) * Prod(Tail(s))

\* The array a URL serves: its elements tell the file and the position apart.
ArrayOf(k, shape) ==
    [kind |-> "array", shape |-> shape, dtype |-> "float64",
     data |-> [i \in 1..Prod(shape) |-> 100 * k + i]]

UrlIndex(name) == CHOOSE k \in 1..Len(urls) : urls[k] = name

(* ----------------------------------------------------------- conversions *)

\* Tensor.float()
Float(t) == [t EXCEPT !.dtype = "float32"]

\* Tensor.view(shape): the same elements in the same order under a new shape; an
\* error when the element counts differ.
View(t, shape) ==
    IF Prod(shape) = Prod(t.shape) THEN [t EXCEPT !.shape = shape]
    ELSE Error("RuntimeError")

\* np.load of a raw file
np_load(file) == IF file.kind = "array" THEN file ELSE Error("IOError")

read_velocity_file(file) ==
    LET data == np_load(file)
    IN  IF data.kind = "error" THEN data ELSE Float(data)

\* read_amplitude_file with the channel put after the height.
read_amplitude_file_ChannelAfterHeight(file) ==
    LET data == np_load(file)
    IN  IF data.kind = "error" THEN data
        ELSE IF Len(data.shape) < 3 THEN Error("IndexError")
        ELSE LET v == View(data, << data.shape[1], data.shape[2], 1, data.shape[3] >>)
             IN  IF v.kind = "error" THEN v ELSE Float(v)

read_amplitude_file(file) ==
    LET data == np_load(file)
    IN  IF data.kind = "error" THEN data
        ELSE IF Len(data.shape) < 3 THEN Error("IndexError")
        ELSE LET v == View(data, << data.shape[1], 1, data.shape[2], data.shape[3] >>)
             IN  IF v.kind = "error" THEN v ELSE Float(v)

\* One (amplitudes, velocities) tuple of download(); an error of either read is
\* the error of the tuple, the amplitude file being read first.
BuildSet(amp, vel) ==
    LET a == read_amplitude_file(amp)
        v == read_velocity_file(vel)
    IN  IF a.kind = "error" THEN a
        ELSE IF v.kind = "error" THEN v
        ELSE [kind |-> "tuple", items |-> << a, v >>]

\* torch.save(obj, f): the file holds the serialized tuple.
torch_save(obj) == [kind |-> "pickle", items |-> obj.items]

\* torch.load of a processed entry: the tuple a complete file holds.
torch_load(file) ==
    IF file.kind = "pickle" THEN [kind |-> "tuple", items |-> file.items]
    ELSE IF file.kind = "truncated" THEN Error("EOFError")
    ELSE Error("FileNotFoundError")

(* ------------------------------------------------------- tensor indexing *)

\* len(tensor): the leading dimension
TensorLen(t) == t.shape[1]

\* TensorIndex handing out the sample after the one asked for.
TensorIndex_NextSample(t, index) ==
    IF Len(t.shape) = 0 THEN Error("IndexError")
    ELSE LET n == t.shape[1]
             stride == Prod(Tail(t.shape))
             i == IF index < 0 THEN index + n ELSE index
         IN  IF index >= n \/ index < -n THEN Error("IndexError")
             ELSE [kind |-> "array", shape |-> Tail(t.shape), dtype |-> t.dtype,
                   data |-> [j \in 1..stride |-> t.data[((i + 1) % n) * stride + j]]]

\* TensorIndex turning every negative index down.
TensorIndex_NoNegative(t, index) ==
    IF Len(t.shape) = 0 THEN Error("IndexError")
    ELSE LET n == t.shape[1]
             stride == Prod(Tail(t.shape))
         IN  IF index >= n \/ index < 0 THEN Error("IndexError")
             ELSE [kind |-> "array", shape |-> Tail(t.shape), dtype |-> t.dtype,
                   data |-> [j \in 1..stride |-> t.data[index * stride + j]]]

\* tensor[index]: indices -N..-1 count from the end, anything outside -N..N-1 is
\* an IndexError.
TensorIndex(t, index) ==
    IF Len(t.shape) = 0 THEN Error("IndexError")
    ELSE LET n == t.shape[1]
             stride == Prod(Tail(t.shape))
             i == IF index < 0 THEN index + n ELSE index
         IN  IF index >= n \/ index < -n THEN Error("IndexError")
             ELSE [kind |-> "array", shape |-> Tail(t.shape), dtype |-> t.dtype,
                   data |-> [j \in 1..stride |-> t.data[i * stride + j]]]

\* The caller's transforms: "None", or one of two unary callables.
Transforms == {"None", "f"}
TargetTransforms == {"None", "g"}
Apply(fn, x) ==
    IF fn = "f" THEN [x EXCEPT !.data = [j \in DOMAIN x.data |-> x.data[j] + 1]]
    ELSE IF fn = "g" THEN [x EXCEPT !.data = [j \in DOMAIN x.data |-> 2 * x.data[j]]]
    ELSE x

(* ----------------------------------------------------------------- state *)

VARIABLES
    remote,            \* what each URL serves: [RawNames -> array]
    rawdir, procdir,   \* whether root/SNIST/raw and root/SNIST/processed exist
    raw,               \* root/SNIST/raw: [RawNames -> array or Absent]
    processed,         \* root/SNIST/processed: [EntryNames -> file or Absent]
    pc,                \* where each object is in __init__ / download()
    caller,            \* who called the running download(): "init" or "user"
    download,          \* the download argument of the object's construction
    idx,               \* loop position inside download()
    train, transform, target_transform,    \* self.train, self.transform, ...
    noise, data_file,  \* __init__'s noise argument and data_file local
    data, targets,     \* self.data, self.targets
    sets,              \* download()'s locals training_set .. test_set_noise_2
    err,               \* the exception that ended the construction
    fetched,           \* download_url calls of the running/last download(), in order
    reads,             \* files read since the construction began
    ret                \* result of the last call on the ready object

fs == << rawdir, procdir, raw, processed >>
self == << train, transform, target_transform, noise, data_file, data, targets >>
ctl == << pc, caller, download, idx, sets, err >>
hist == << fetched, reads, ret >>
vars == << remote, fs, self, ctl, hist >>

None == [op |-> "none", kind |-> "none"]

(* ------------------------------------------------------------ first state *)

\* The arrays the six URLs serve: amplitudes [N,H,W], velocities [N,VelLen], with
\* N samples in the train files and M in the test files.  bad names an amplitude
\* file served with two dimensions only, or "none".
Served(n, m, bad) ==
    [f \in RawNames |->
        LET k == UrlIndex(f)
            cnt == IF k <= 2 THEN n ELSE m
        IN  IF f = bad THEN ArrayOf(k, << cnt, H >>)
            ELSE IF f \in AmpNames THEN ArrayOf(k, << cnt, H, W >>)
            ELSE ArrayOf(k, << cnt, VelLen >>)]

WellFormed(r) == \A f \in AmpNames : Len(r[f].shape) = 3

\* The sample counts tried: an empty array and a full one.
SampleCounts == {0, MaxN}

\* What the URLs may serve: well-formed arrays of every pair of sample counts,
\* and full arrays with one amplitude file malformed.
GoodWorlds == { Served(n, m, "none") : n \in SampleCounts, m \in SampleCounts }

\* Shapes of other than three dimensions for the first amplitude file.
OddShapes == { << MaxN >>, << MaxN, H >>, << MaxN, H, W, 1 >>, << MaxN, H, W, 2 >> }
OddWorlds ==
    { [Served(MaxN, MaxN, "none") EXCEPT
          !["train_amplitudes.npy"] = ArrayOf(UrlIndex("train_amplitudes.npy"), shape)] :
      shape \in OddShapes }

Worlds == GoodWorlds \cup { Served(MaxN, MaxN, f) : f \in AmpNames } \cup OddWorlds

\* The entry download() builds from the raw files r for the j-th processed file.
Built(r, j) == torch_save(BuildSet(r[sources[j][1]], r[sources[j][2]]))

\* A fresh root: nothing under root/SNIST.
InitFresh ==
    /\ remote \in Worlds
    /\ rawdir = FALSE /\ procdir = FALSE
    /\ raw = [f \in RawNames |-> Absent]
    /\ processed = [e \in EntryNames |-> Absent]

\* A root an earlier download() stopped in: the first k raw files fetched and no
\* processed entry written.
InitPartial ==
    /\ remote \in GoodWorlds
    /\ rawdir = TRUE /\ procdir = TRUE
    /\ \E k \in 0..Len(urls) :
          raw = [f \in RawNames |-> IF UrlIndex(f) <= k THEN remote[f] ELSE Absent]
    /\ processed = [e \in EntryNames |-> Absent]

\* A root an earlier download() completed in, from which entries were since
\* removed or damaged: any subset of the entries present, at most one truncated.
InitCached ==
    /\ remote \in GoodWorlds
    /\ rawdir = TRUE /\ procdir = TRUE
    /\ raw = remote
    /\ \E present \in SUBSET (1..Len(entries)) :
       \E damaged \in {0} \cup present :
          processed = [e \in EntryNames |->
              LET j == CHOOSE i \in 1..Len(entries) : entries[i] = e
              IN  IF j \notin present THEN Absent
                  ELSE IF j = damaged THEN Truncated
                  ELSE Built(remote, j)]

Init ==
    /\ InitFresh \/ InitPartial \/ InitCached
    /\ pc = [p \in Procs |-> "idle"]
    /\ caller = [p \in Procs |-> "init"]
    /\ download = [p \in Procs |-> FALSE]
    /\ idx = [p \in Procs |-> 0]
    /\ train = [p \in Procs |-> TRUE]
    /\ transform = [p \in Procs |-> "None"]
    /\ target_transform = [p \in Procs |-> "None"]
    /\ noise = [p \in Procs |-> 0]
    /\ data_file = [p \in Procs |-> "unbound"]
    /\ data = [p \in Procs |-> Unset]
    /\ targets = [p \in Procs |-> Unset]
    /\ sets = [p \in Procs |-> << >>]
    /\ err = [p \in Procs |-> "none"]
    /\ fetched = [p \in Procs |-> << >>]
    /\ reads = [p \in Procs |-> {}]
    /\ ret = [p \in Procs |-> None]

(* --------------------------------------------------------------- SNIST *)

\* _check_exists counting an entry only when it can be read back.
_check_exists_Validates ==
    \A j \in 1..Len(entries) : processed[entries[j]].kind = "pickle"

\* _check_exists forgetting the last entry.
_check_exists_ThreeOnly ==
    /\ processed[training_file] # Absent
    /\ processed[test_file_noise_0] # Absent
    /\ processed[test_file_noise_1] # Absent

\* SNIST._check_exists
_check_exists ==
    /\ processed[training_file] # Absent
    /\ processed[test_file_noise_0] # Absent
    /\ processed[test_file_noise_1] # Absent
    /\ processed[test_file_noise_2] # Absent

\* An exception leaving download(): out of __init__ it ends the construction; out
\* of a download() the user called on a ready object it reaches the user, and the
\* object stays as it was.
Raise(p, e) ==
    IF caller[p] = "init"
    THEN /\ pc' = [pc EXCEPT ![p] = "failed"]
         /\ err' = [err EXCEPT ![p] = e]
         /\ ret' = ret
    ELSE /\ pc' = [pc EXCEPT ![p] = "ready"]
         /\ err' = err
         /\ ret' = [ret EXCEPT ![p] = [op |-> "download", kind |-> "error", name |-> e]]

\* download() returning to whoever called it.
Return(p) ==
    IF caller[p] = "init"
    THEN /\ pc' = [pc EXCEPT ![p] = "check"]
         /\ ret' = ret
    ELSE /\ pc' = [pc EXCEPT ![p] = "ready"]
         /\ ret' = [ret EXCEPT ![p] = [op |-> "download", kind |-> "ok"]]

\* SNIST(root, train, noise, transform, target_transform, download): a new object
\* in slot p, up to the `if download:` of __init__.
Construct(p, tr, dl, tf, ttf) ==
    /\ pc[p] \in {"idle", "ready", "failed"}
    /\ train' = [train EXCEPT ![p] = tr]
    /\ transform' = [transform EXCEPT ![p] = tf]
    /\ target_transform' = [target_transform EXCEPT ![p] = ttf]
    /\ download' = [download EXCEPT ![p] = dl]
    /\ caller' = [caller EXCEPT ![p] = "init"]
    /\ pc' = [pc EXCEPT ![p] = IF dl THEN "dl_check" ELSE "check"]
    /\ idx' = [idx EXCEPT ![p] = 0]
    /\ noise' = [noise EXCEPT ![p] = 0]
    /\ data_file' = [data_file EXCEPT ![p] = "unbound"]
    /\ data' = [data EXCEPT ![p] = Unset]
    /\ targets' = [targets EXCEPT ![p] = Unset]
    /\ sets' = [sets EXCEPT ![p] = << >>]
    /\ err' = [err EXCEPT ![p] = "none"]
    /\ fetched' = [fetched EXCEPT ![p] = << >>]
    /\ reads' = [reads EXCEPT ![p] = {}]
    /\ ret' = [ret EXCEPT ![p] = None]
    /\ UNCHANGED << remote, fs >>

\* dataset.download() called by the user on a ready object.
CallDownload(p) ==
    /\ pc[p] = "ready"
    /\ caller' = [caller EXCEPT ![p] = "user"]
    /\ pc' = [pc EXCEPT ![p] = "dl_check"]
    /\ ret' = [ret EXCEPT ![p] = None]
    /\ UNCHANGED << remote, fs, self, download, idx, sets, err, fetched, reads >>

\* DownloadCheck counting the cache as there when any entry is.
DownloadCheck_AnyPresent(p) ==
    /\ pc[p] = "dl_check"
    /\ fetched' = [fetched EXCEPT ![p] = << >>]
    /\ sets' = [sets EXCEPT ![p] = << >>]
    /\ IF \E e \in EntryNames : processed[e] # Absent
       THEN Return(p)
       ELSE /\ pc' = [pc EXCEPT ![p] = "mk_raw"]
            /\ ret' = ret
    /\ UNCHANGED << remote, fs, self, caller, download, idx, err, reads >>

\* DownloadCheck without its gate: download() rebuilding whatever the cache holds.
DownloadCheck_NoGate(p) ==
    /\ pc[p] = "dl_check"
    /\ fetched' = [fetched EXCEPT ![p] = << >>]
    /\ sets' = [sets EXCEPT ![p] = << >>]
    /\ pc' = [pc EXCEPT ![p] = "mk_raw"]
    /\ UNCHANGED << remote, fs, self, caller, download, idx, err, reads, ret >>

\* DownloadCheck letting one object at a time into the body of download().
DownloadCheck_Exclusive(p) ==
    /\ pc[p] = "dl_check"
    /\ fetched' = [fetched EXCEPT ![p] = << >>]
    /\ sets' = [sets EXCEPT ![p] = << >>]
    /\ IF _check_exists
          \/ \E q \in Procs \ {p} :
                pc[q] \in {"mk_raw", "mk_proc", "fetch", "build", "open", "save"}
       THEN Return(p)
       ELSE /\ pc' = [pc EXCEPT ![p] = "mk_raw"]
            /\ ret' = ret
    /\ UNCHANGED << remote, fs, self, caller, download, idx, err, reads >>

\* download(): `if self._check_exists(): return`
DownloadCheck(p) ==
    /\ pc[p] = "dl_check"
    /\ fetched' = [fetched EXCEPT ![p] = << >>]
    /\ sets' = [sets EXCEPT ![p] = << >>]
    /\ IF _check_exists
       THEN Return(p)
       ELSE /\ pc' = [pc EXCEPT ![p] = "mk_raw"]
            /\ ret' = ret
    /\ UNCHANGED << remote, fs, self, caller, download, idx, err, reads >>

\* download(): makedir_exist_ok(self.raw_folder)
MakeRawFolder(p) ==
    /\ pc[p] = "mk_raw"
    /\ rawdir' = TRUE
    /\ pc' = [pc EXCEPT ![p] = "mk_proc"]
    /\ UNCHANGED << remote, procdir, raw, processed, self, caller, download, idx,
                    sets, err, hist >>

\* MakeProcessedFolder with the loop resumed at the first raw file not yet there.
MakeProcessedFolder_Resume(p) ==
    /\ pc[p] = "mk_proc"
    /\ procdir' = TRUE
    /\ pc' = [pc EXCEPT ![p] = "fetch"]
    /\ idx' = [idx EXCEPT ![p] =
                  IF \E k \in 1..Len(urls) : raw[urls[k]] = Absent
                  THEN CHOOSE k \in 1..Len(urls) :
                          /\ raw[urls[k]] = Absent
                          /\ \A i \in 1..(k - 1) : raw[urls[i]] # Absent
                  ELSE Len(urls)]
    /\ UNCHANGED << remote, rawdir, raw, processed, self, caller, download,
                    sets, err, hist >>

\* download(): makedir_exist_ok(self.processed_folder)
MakeProcessedFolder(p) ==
    /\ pc[p] = "mk_proc"
    /\ procdir' = TRUE
    /\ pc' = [pc EXCEPT ![p] = "fetch"]
    /\ idx' = [idx EXCEPT ![p] = 1]
    /\ UNCHANGED << remote, rawdir, raw, processed, self, caller, download,
                    sets, err, hist >>

\* download_url(url, root=raw_folder, filename=filename, md5=None) succeeding: a
\* file already at the destination is kept, otherwise what the URL serves is put
\* there.
DownloadUrl(r, served, filename) ==
    [r EXCEPT ![filename] = IF @ = Absent THEN served[filename] ELSE @]

\* download(): one turn of `for url in self.urls`, the fetch succeeding
FetchOk(p) ==
    /\ pc[p] = "fetch"
    /\ fetched' = [fetched EXCEPT ![p] = Append(@, urls[idx[p]])]
    /\ raw' = DownloadUrl(raw, remote, urls[idx[p]])
    /\ rawdir' = TRUE
    /\ IF idx[p] < Len(urls)
       THEN /\ idx' = [idx EXCEPT ![p] = @ + 1]
            /\ pc' = pc
       ELSE /\ idx' = [idx EXCEPT ![p] = 1]
            /\ pc' = [pc EXCEPT ![p] = "build"]
    /\ UNCHANGED << remote, procdir, processed, self, caller, download, sets, err,
                    reads, ret >>

\* FetchFail with the exception caught and the loop going on.
FetchFail_Swallowed(p) ==
    /\ pc[p] = "fetch"
    /\ fetched' = [fetched EXCEPT ![p] = Append(@, urls[idx[p]])]
    /\ IF idx[p] < Len(urls)
       THEN /\ idx' = [idx EXCEPT ![p] = @ + 1]
            /\ pc' = pc
       ELSE /\ idx' = [idx EXCEPT ![p] = 1]
            /\ pc' = [pc EXCEPT ![p] = "build"]
    /\ UNCHANGED << remote, fs, self, caller, download, sets, err, reads, ret >>

\* download(): one turn of `for url in self.urls`, download_url raising
FetchFail(p) ==
    /\ pc[p] = "fetch"
    /\ fetched' = [fetched EXCEPT ![p] = Append(@, urls[idx[p]])]
    /\ Raise(p, "FetchFailure")
    /\ UNCHANGED << remote, fs, self, caller, download, idx, sets, reads >>

\* The files one (read_amplitude_file(..), read_velocity_file(..)) tuple reads: the
\* velocity file only when the amplitude file converted.
FilesRead(r, j) ==
    IF read_amplitude_file(r[sources[j][1]]).kind = "error"
    THEN { sources[j][1] }
    ELSE { sources[j][1], sources[j][2] }

\* BuildTuple saving each tuple to its entry as soon as it is built.
BuildTuple_SavesAsBuilt(p) ==
    /\ pc[p] = "build"
    /\ LET j == idx[p]
           s == BuildSet(raw[sources[j][1]], raw[sources[j][2]])
       IN  /\ reads' = [reads EXCEPT ![p] = @ \cup FilesRead(raw, j)]
           /\ IF s.kind = "error"
              THEN /\ Raise(p, s.name)
                   /\ UNCHANGED << idx, sets, processed >>
              ELSE /\ sets' = [sets EXCEPT ![p] = Append(@, s)]
                   /\ processed' = [processed EXCEPT ![entries[j]] = torch_save(s)]
                   /\ idx' = [idx EXCEPT ![p] = IF j < Len(sources) THEN j + 1 ELSE 1]
                   /\ pc' = [pc EXCEPT ![p] = IF j < Len(sources) THEN "build" ELSE "open"]
                   /\ UNCHANGED << err, ret >>
    /\ UNCHANGED << remote, rawdir, procdir, raw, self, caller, download, fetched >>

\* download(): training_set = (..), test_set_noise_0 = (..), ... one tuple a step
BuildTuple(p) ==
    /\ pc[p] = "build"
    /\ LET j == idx[p]
           s == BuildSet(raw[sources[j][1]], raw[sources[j][2]])
       IN  /\ reads' = [reads EXCEPT ![p] = @ \cup FilesRead(raw, j)]
           /\ IF s.kind = "error"
              THEN /\ Raise(p, s.name)
                   /\ UNCHANGED << idx, sets >>
              ELSE /\ sets' = [sets EXCEPT ![p] = Append(@, s)]
                   /\ idx' = [idx EXCEPT ![p] = IF j < Len(sources) THEN j + 1 ELSE 1]
                   /\ pc' = [pc EXCEPT ![p] = IF j < Len(sources) THEN "build" ELSE "open"]
                   /\ UNCHANGED << err, ret >>
    /\ UNCHANGED << remote, fs, self, caller, download, fetched >>

\* download(): `with open(.. , 'wb') as f:` creates the entry, or empties it
OpenEntry(p) ==
    /\ pc[p] = "open"
    /\ processed' = [processed EXCEPT ![entries[idx[p]]] = Truncated]
    /\ pc' = [pc EXCEPT ![p] = "save"]
    /\ UNCHANGED << remote, rawdir, procdir, raw, self, caller, download, idx,
                    sets, err, hist >>

\* SaveEntry returning one entry early: test_noise_2.pt opened and never saved to
\* before download() returns.
SaveEntry_SkipsLast(p) ==
    /\ pc[p] = "save"
    /\ IF idx[p] < Len(entries)
       THEN /\ processed' = [processed EXCEPT ![entries[idx[p]]] = torch_save(sets[p][idx[p]])]
            /\ idx' = [idx EXCEPT ![p] = @ + 1]
            /\ pc' = [pc EXCEPT ![p] = "open"]
            /\ ret' = ret
       ELSE /\ processed' = [processed EXCEPT ![entries[idx[p]]] = Absent]
            /\ idx' = [idx EXCEPT ![p] = 0]
            /\ Return(p)
    /\ UNCHANGED << remote, rawdir, procdir, raw, self, caller, download,
                    sets, err, fetched, reads >>

\* download(): torch.save(.., f); after the fourth, download() returns
SaveEntry(p) ==
    /\ pc[p] = "save"
    /\ processed' = [processed EXCEPT ![entries[idx[p]]] = torch_save(sets[p][idx[p]])]
    /\ IF idx[p] < Len(entries)
       THEN /\ idx' = [idx EXCEPT ![p] = @ + 1]
            /\ pc' = [pc EXCEPT ![p] = "open"]
            /\ ret' = ret
       ELSE /\ idx' = [idx EXCEPT ![p] = 0]
            /\ Return(p)
    /\ UNCHANGED << remote, rawdir, procdir, raw, self, caller, download,
                    sets, err, fetched, reads >>

\* CheckExists without the raise: __init__ going on to load whatever is there.
CheckExists_NoRaise(p) ==
    /\ pc[p] = "check"
    /\ pc' = [pc EXCEPT ![p] = "load"]
    /\ UNCHANGED << remote, fs, self, caller, download, idx, sets, err, hist >>

\* __init__: `if not self._check_exists(): raise RuntimeError('Dataset not found.' ..)`
CheckExists(p) ==
    /\ pc[p] = "check"
    /\ IF _check_exists
       THEN /\ pc' = [pc EXCEPT ![p] = "load"]
            /\ err' = err
       ELSE /\ pc' = [pc EXCEPT ![p] = "failed"]
            /\ err' = [err EXCEPT ![p] = "Dataset not found"]
    /\ UNCHANGED << remote, fs, self, caller, download, idx, sets, hist >>

\* SelectFile falling back to the noise-free test partition.
SelectFile_DefaultsToNoise0(tr, n) ==
    IF tr THEN training_file
    ELSE IF n = 1 THEN test_file_noise_1
    ELSE IF n = 2 THEN test_file_noise_2
    ELSE test_file_noise_0

\* SelectFile with the last two branches exchanged.
SelectFile_NoiseSwapped(tr, n) ==
    IF tr THEN training_file
    ELSE IF n = 0 THEN test_file_noise_0
    ELSE IF n = 1 THEN test_file_noise_2
    ELSE IF n = 2 THEN test_file_noise_1
    ELSE "unbound"

\* SelectFile looking at noise before self.train.
SelectFile_NoiseFirst(tr, n) ==
    IF n = 1 THEN test_file_noise_1
    ELSE IF n = 2 THEN test_file_noise_2
    ELSE IF tr THEN training_file
    ELSE IF n = 0 THEN test_file_noise_0
    ELSE "unbound"

\* __init__: the choice of data_file from self.train and noise
SelectFile(tr, n) ==
    IF tr THEN training_file
    ELSE IF n = 0 THEN test_file_noise_0
    ELSE IF n = 1 THEN test_file_noise_1
    ELSE IF n = 2 THEN test_file_noise_2
    ELSE "unbound"

\* __init__: the choice of data_file for noise argument n, then
\* `self.data, self.targets = torch.load(os.path.join(self.processed_folder, data_file))`
Load(p, n) ==
    /\ pc[p] = "load"
    /\ noise' = [noise EXCEPT ![p] = n]
    /\ LET file == SelectFile(train[p], n)
       IN  /\ data_file' = [data_file EXCEPT ![p] = file]
           /\ IF file = "unbound"
              THEN /\ pc' = [pc EXCEPT ![p] = "failed"]
                   /\ err' = [err EXCEPT ![p] = "UnboundLocalError"]
                   /\ UNCHANGED << data, targets, reads >>
              ELSE LET t == torch_load(processed[file])
                   IN  /\ reads' = [reads EXCEPT ![p] = @ \cup {file}]
                       /\ IF t.kind = "error"
                          THEN /\ pc' = [pc EXCEPT ![p] = "failed"]
                               /\ err' = [err EXCEPT ![p] = t.name]
                               /\ UNCHANGED << data, targets >>
                          ELSE /\ pc' = [pc EXCEPT ![p] = "ready"]
                               /\ data' = [data EXCEPT ![p] = t.items[1]]
                               /\ targets' = [targets EXCEPT ![p] = t.items[2]]
                               /\ err' = err
    /\ UNCHANGED << remote, fs, train, transform, target_transform, caller,
                    download, idx, sets, fetched, ret >>

\* The indices tried on a ready object: past both ends of the largest partition.
Indices == (0 - MaxN - 2)..(MaxN + 1)

\* getitem giving the target to self.transform instead of self.target_transform.
getitem_TransformOnTarget(d, t, tf, ttf, index) ==
    LET img == TensorIndex(d, index)
        target == TensorIndex(t, index)
    IN  IF img.kind = "error" \/ target.kind = "error"
        THEN [op |-> "getitem", index |-> index, kind |-> "error", name |-> "IndexError"]
        ELSE [op |-> "getitem", index |-> index, kind |-> "ok",
              img |-> IF tf # "None" THEN Apply(tf, img) ELSE img,
              target |-> IF ttf # "None" THEN Apply(tf, target) ELSE target,
              fcalls |-> IF tf # "None" THEN 1 ELSE 0,
              gcalls |-> IF ttf # "None" THEN 1 ELSE 0]

\* SNIST.__getitem__(index) as a value: the pair returned, or the IndexError, with
\* the number of calls made of each transform.
getitem(d, t, tf, ttf, index) ==
    LET img == TensorIndex(d, index)
        target == TensorIndex(t, index)
    IN  IF img.kind = "error" \/ target.kind = "error"
        THEN [op |-> "getitem", index |-> index, kind |-> "error", name |-> "IndexError"]
        ELSE [op |-> "getitem", index |-> index, kind |-> "ok",
              img |-> IF tf # "None" THEN Apply(tf, img) ELSE img,
              target |-> IF ttf # "None" THEN Apply(ttf, target) ELSE target,
              fcalls |-> IF tf # "None" THEN 1 ELSE 0,
              gcalls |-> IF ttf # "None" THEN 1 ELSE 0]

\* GetItem with the transform run in place on the stored features.
GetItem_InPlace(p, index) ==
    /\ pc[p] = "ready"
    /\ ret' = [ret EXCEPT ![p] =
                  getitem(data[p], targets[p], transform[p], target_transform[p], index)]
    /\ data' = [data EXCEPT ![p] = Apply(transform[p], @)]
    /\ UNCHANGED << remote, fs, train, transform, target_transform, noise, data_file,
                    targets, ctl, fetched, reads >>

\* dataset[index] on a ready object
GetItem(p, index) ==
    /\ pc[p] = "ready"
    /\ ret' = [ret EXCEPT ![p] =
                  getitem(data[p], targets[p], transform[p], target_transform[p], index)]
    /\ UNCHANGED << remote, fs, self, ctl, fetched, reads >>

\* SNIST.__len__ as a value
len(d) == [op |-> "len", kind |-> "ok", value |-> TensorLen(d)]

\* len(dataset) on a ready object
LenCall(p) ==
    /\ pc[p] = "ready"
    /\ ret' = [ret EXCEPT ![p] = len(data[p])]
    /\ UNCHANGED << remote, fs, self, ctl, fetched, reads >>

\* The deprecated property names and the field each forwards to.
Aliases == { "train_labels", "test_labels", "train_data", "test_data" }

\* SNIST.train_labels / test_labels / train_data / test_data as a value
alias(name, d, t) ==
    [op |-> "alias", kind |-> "ok", name |-> name,
     value |-> IF name \in { "train_labels", "test_labels" } THEN t ELSE d]

\* dataset.train_labels, .test_labels, .train_data or .test_data read on a ready
\* object
AliasRead(p, name) ==
    /\ pc[p] = "ready"
    /\ ret' = [ret EXCEPT ![p] = alias(name, data[p], targets[p])]
    /\ UNCHANGED << remote, fs, self, ctl, fetched, reads >>

(* -------------------------------------------------------- specification *)

Step(p) ==
    \/ \E tr \in BOOLEAN, dl \in BOOLEAN, tf \in Transforms, ttf \in TargetTransforms :
          Construct(p, tr, dl, tf, ttf)
    \/ CallDownload(p)
    \/ DownloadCheck(p)
    \/ MakeRawFolder(p)
    \/ MakeProcessedFolder(p)
    \/ FetchOk(p)
    \/ FetchFail(p)
    \/ BuildTuple(p)
    \/ OpenEntry(p)
    \/ SaveEntry(p)
    \/ CheckExists(p)
    \/ \E n \in 0..MaxNoise : Load(p, n)
    \/ \E index \in Indices : GetItem(p, index)
    \/ LenCall(p)
    \/ \E name \in Aliases : AliasRead(p, name)

\* One Dataset object at a time, each constructed after the last was dropped.
Next == Step(1)

Spec == Init /\ [][Next]_vars

\* The statements of a running __init__ / download(): every one of them blocks
\* until it is done and the next one follows, so a call that has begun goes on
\* until it returns or raises.  What the user does next is not forced.
Advance(p) ==
    \/ DownloadCheck(p)
    \/ MakeRawFolder(p)
    \/ MakeProcessedFolder(p)
    \/ FetchOk(p)
    \/ FetchFail(p)
    \/ BuildTuple(p)
    \/ OpenEntry(p)
    \/ SaveEntry(p)
    \/ CheckExists(p)
    \/ \E n \in 0..MaxNoise : Load(p, n)

SpecLive == Spec /\ WF_vars(Advance(1))

\* Two processes on one empty root, each constructing one SNIST(root,
\* download=True) while the other does: their statements interleave in any
\* order, nothing in the code holding a lock on the root.
InitConc ==
    /\ Init
    /\ InitFresh
    /\ remote = Served(MaxN, MaxN, "none")

StepConc(p) ==
    \/ /\ pc[p] = "idle"
       /\ \E tr \in BOOLEAN : Construct(p, tr, TRUE, "None", "None")
    \/ DownloadCheck(p)
    \/ MakeRawFolder(p)
    \/ MakeProcessedFolder(p)
    \/ FetchOk(p)
    \/ BuildTuple(p)
    \/ OpenEntry(p)
    \/ SaveEntry(p)
    \/ CheckExists(p)
    \/ \E n \in 0..MaxNoise : Load(p, n)

NextConc == \E p \in Procs : StepConc(p)

SpecConc == InitConc /\ [][NextConc]_vars

(* ---------------------------------------------------------------- claims *)

\* The processed entries present on disk, whatever they hold.
Present == { e \in EntryNames : processed[e].kind # "absent" }
AllPresent == Present = EntryNames

\* C1: a download() that finds all four entries present returns at once: it
\* calls the Fetcher zero times and leaves directories, raw files and processed
\* entries as they were.  A download() called on an object that is ready (so
\* after the download() of its construction) finds them present and changes
\* nothing by being called.
C1_DownloadNoOpWhenCached ==
    [][\A p \in Procs :
          /\ (pc[p] = "dl_check" /\ AllPresent /\ pc'[p] # pc[p])
                => /\ fs' = fs
                   /\ fetched'[p] = << >>
                   /\ pc'[p] = IF caller[p] = "init" THEN "check" ELSE "ready"
          /\ (pc[p] = "ready" /\ pc'[p] = "dl_check")
                => (AllPresent /\ fs' = fs)]_vars

\* C1's case: an object whose construction downloaded and built the cache, on
\* which download() was then called again and returned without a fetch.
C1_Witness ==
    /\ pc[1] = "ready" /\ download[1]
    /\ RawNames \subseteq reads[1]
    /\ ret[1] = [op |-> "download", kind |-> "ok"]
    /\ fetched[1] = << >>

\* C2: _check_exists() is true exactly when all four processed entries are
\* present, whatever they and the raw directory hold; __init__ goes on to load
\* only when they are, and raises 'Dataset not found' only when one is not.
C2_CheckExistsIffAllFour ==
    /\ _check_exists <=> Cardinality(Present) = 4
    /\ \A p \in Procs :
          /\ pc[p] = "load" => AllPresent
          /\ (pc[p] = "failed" /\ err[p] = "Dataset not found") => ~AllPresent

\* C2's case: three entries present beside a full raw directory, and a
\* construction that _check_exists() turned down.
C2_Witness ==
    /\ Cardinality(Present) = 3
    /\ \A f \in RawNames : raw[f] # Absent
    /\ pc[1] = "failed" /\ err[1] = "Dataset not found"

\* C3: a construction with download=False that finds an entry absent ends with
\* 'Dataset not found': it loads nothing, calls the Fetcher zero times, reads no
\* file and changes nothing on disk.
C3_MissingCacheFails ==
    [][\A p \in Procs :
          /\ (pc'[p] = "check" /\ ~download'[p] /\ pc[p] # "check")
                => (fs' = fs /\ fetched'[p] = << >> /\ reads'[p] = {})
          /\ (pc[p] = "check" /\ ~download[p] /\ ~AllPresent /\ pc'[p] # pc[p])
                => /\ pc'[p] = "failed" /\ err'[p] = "Dataset not found"
                   /\ fs' = fs
                   /\ fetched'[p] = << >> /\ reads'[p] = {}
                   /\ data'[p] = Unset /\ targets'[p] = Unset]_vars

\* C3's case: a construction with download=False that failed on an empty root.
C3_Witness ==
    /\ pc[1] = "failed" /\ err[1] = "Dataset not found" /\ ~download[1]
    /\ Present = {} /\ ~rawdir /\ ~procdir

\* The processed entry (train, noise) selects, as an index into entries; 0 when
\* they select none.
Selected(tr, n) ==
    IF tr THEN 1 ELSE IF n \in 0..2 THEN n + 2 ELSE 0

\* The construction of p ran download()'s rebuild: download() read the raw files.
Rebuilt(p) == download[p] /\ RawNames \subseteq reads[p]

\* C4: a construction with download=True that finds the cache absent ends, and
\* ends ready unless a fetch failed, a served amplitude array is malformed or
\* (train, noise) select no partition; it is then ready with all four entries
\* present and complete, and len() is the sample count of the selected
\* partition's amplitude array.
C4_DownloadThenReady ==
    /\ [](\A p \in Procs :
            /\ (pc[p] = "failed" /\ download[p] /\ fetched[p] # << >>)
                  => \/ err[p] = "FetchFailure"
                     \/ ~WellFormed(remote)
                     \/ (err[p] = "UnboundLocalError" /\ Selected(train[p], noise[p]) = 0)
            /\ (pc[p] = "ready" /\ Rebuilt(p))
                  => /\ _check_exists
                     /\ \A e \in EntryNames : processed[e].kind = "pickle"
                     /\ len(data[p]).value
                           = remote[sources[Selected(train[p], noise[p])][1]].shape[1])
    /\ \A p \in {1} :
          (pc[p] = "mk_raw" /\ caller[p] = "init")
              ~> (pc[p] = "ready" \/ (pc[p] = "failed" /\ err[p] # "Dataset not found"))

\* C4's case: ready after a rebuild from a root with nothing in it, the test
\* partition of MaxN samples loaded and len() returning MaxN.
C4_Witness ==
    /\ pc[1] = "ready" /\ Rebuilt(1) /\ Len(fetched[1]) = Len(urls)
    /\ ~train[1] /\ noise[1] = 2
    /\ ret[1] = [op |-> "len", kind |-> "ok", value |-> MaxN]
    /\ MaxN > 0

\* The entry each (train, noise) is to load: training.pt for train, otherwise
\* test_noise_<noise>.pt.
ExpectedFile ==
    [tr \in BOOLEAN, n \in 0..MaxNoise |->
        IF tr THEN "training.pt"
        ELSE IF n = 0 THEN "test_noise_0.pt"
        ELSE IF n = 1 THEN "test_noise_1.pt"
        ELSE IF n = 2 THEN "test_noise_2.pt"
        ELSE "none"]

EntryFrom(amp, vel) ==
    [kind |-> "pickle",
     items |-> << read_amplitude_file(raw[amp]), read_velocity_file(raw[vel]) >>]

\* download() ran to its end in p's construction and nothing failed since.
Downloaded(p) ==
    /\ Len(fetched[p]) = Len(urls)
    /\ pc[p] \in {"check", "load", "ready"}

\* C6: after a download() that ran to its end, training.pt holds
\* (train_amplitudes, train_velocities), test_noise_0.pt (test_amplitudes,
\* test_velocities), test_noise_1.pt (test_amplitudes_noise_1, test_velocities)
\* and test_noise_2.pt (test_amplitudes_noise_2, test_velocities), so the three
\* test variants hold one and the same target tensor, and a test partition
\* loaded from them has exactly the test velocities as targets.
C6_EntriesFromTheirRawFiles ==
    \A p \in Procs :
        Downloaded(p) =>
            /\ processed["training.pt"]
                  = EntryFrom("train_amplitudes.npy", "train_velocities.npy")
            /\ processed["test_noise_0.pt"]
                  = EntryFrom("test_amplitudes.npy", "test_velocities.npy")
            /\ processed["test_noise_1.pt"]
                  = EntryFrom("test_amplitudes_noise_1.npy", "test_velocities.npy")
            /\ processed["test_noise_2.pt"]
                  = EntryFrom("test_amplitudes_noise_2.npy", "test_velocities.npy")
            /\ processed["test_noise_0.pt"].items[2] = processed["test_noise_1.pt"].items[2]
            /\ processed["test_noise_1.pt"].items[2] = processed["test_noise_2.pt"].items[2]
            /\ (pc[p] = "ready" /\ ~train[p])
                  => targets[p] = read_velocity_file(remote["test_velocities.npy"])

\* C6's case: the noise-1 test partition loaded after a rebuild, its targets
\* not empty and its features not those of the noise-0 entry.
C6_Witness ==
    /\ pc[1] = "ready" /\ Downloaded(1) /\ ~train[1] /\ noise[1] = 1
    /\ targets[1].shape = << MaxN, VelLen >> /\ MaxN > 0
    /\ remote["train_velocities.npy"].shape[1] = 0
    /\ data[1] # processed["test_noise_0.pt"].items[1]

NoiseRaw == { "test_amplitudes_noise_1.npy", "test_amplitudes_noise_2.npy" }
NoiseEntries == { "test_noise_1.pt", "test_noise_2.pt" }

\* C7 as claimed: a construction with train=True never reads a noise-variant
\* file, raw or processed, whatever download and the cache are.
C7_Claimed_TrainReadsNoNoiseFile ==
    \A p \in Procs :
        (train[p] /\ pc[p] # "idle") => reads[p] \cap (NoiseRaw \cup NoiseEntries) = {}

\* C7, amended: a construction with train=True never reads the processed
\* entries test_noise_1.pt and test_noise_2.pt, and with download=False it reads
\* no noise-variant raw file either; the raw noise-variant files are read by
\* download()'s rebuild alone, which reads all six raw files whatever train is.
C7_TrainLoadsNoNoiseEntry ==
    \A p \in Procs :
        /\ (train[p] /\ pc[p] # "idle")
              => /\ reads[p] \cap NoiseEntries = {}
                 /\ ~download[p] => reads[p] \cap NoiseRaw = {}
        /\ (reads[p] \cap NoiseRaw # {})
              => (download[p] /\ { sources[j][1] : j \in 1..3 } \subseteq reads[p])

\* C7's case: train=True, ready after a rebuild that read both raw noise files,
\* only training.pt read among the processed entries.
C7_Witness ==
    /\ pc[1] = "ready" /\ train[1] /\ download[1]
    /\ NoiseRaw \subseteq reads[1]
    /\ reads[1] \cap EntryNames = { "training.pt" }

\* The i-th sample of a tensor, 0 <= i < N: the i-th of N equal runs of its
\* elements, under the shape without its leading dimension.
SampleAt(t, i) ==
    LET run == Len(t.data) \div t.shape[1]
    IN  [kind |-> "array", shape |-> SubSeq(t.shape, 2, Len(t.shape)), dtype |-> t.dtype,
         data |-> SubSeq(t.data, i * run + 1, (i + 1) * run)]

\* What the two callables tried as transforms compute.
F(x) == [x EXCEPT !.data = [j \in 1..Len(x.data) |-> x.data[j] + 1]]
G(x) == [x EXCEPT !.data = [j \in 1..Len(x.data) |-> x.data[j] * 2]]

\* The feature and the target get() is to return for sample i of object p.
Feature(p, i) == IF transform[p] = "f" THEN F(SampleAt(data[p], i)) ELSE SampleAt(data[p], i)
Target(p, i) ==
    IF target_transform[p] = "g" THEN G(SampleAt(targets[p], i)) ELSE SampleAt(targets[p], i)

\* C8: on a ready object whose feature tensor has leading dimension N, len()
\* returns N, and get(i) succeeds for every 0 <= i < N with the i-th feature
\* and the i-th target of the loaded partition (as the transforms map them).
C8_LenAndGetInRange ==
    \A p \in Procs :
        (pc[p] = "ready") =>
            /\ ret[p].op = "len" => ret[p].value = data[p].shape[1]
            /\ (ret[p].op = "getitem" /\ 0 <= ret[p].index /\ ret[p].index < data[p].shape[1])
                  => /\ ret[p].kind = "ok"
                     /\ ret[p].img = Feature(p, ret[p].index)
                     /\ ret[p].target = Target(p, ret[p].index)

\* C8's case: the last of N = MaxN >= 2 samples read from a ready object.
C8_Witness ==
    /\ pc[1] = "ready" /\ data[1].shape[1] = MaxN /\ MaxN >= 2
    /\ ret[1].op = "getitem" /\ ret[1].index = MaxN - 1 /\ ret[1].kind = "ok"
    /\ ret[1].img.data # SampleAt(data[1], 0).data

\* C9 as claimed: get(i) succeeds for 0 <= i < N and for no other i.
C9_Claimed_ValidIndicesAreZeroToN ==
    \A p \in Procs :
        (pc[p] = "ready" /\ ret[p].op = "getitem")
            => (ret[p].kind = "ok"
                  <=> (0 <= ret[p].index /\ ret[p].index < data[p].shape[1]))

\* C9, amended: on a ready object with N samples get(i) fails with an index
\* error exactly for i >= N and for i < -N; an index -N <= i < 0 counts from the
\* end and returns sample N + i; a get(), failed or not, leaves the loaded
\* partition as it was.
C9_IndexErrorOutsideMinusNToN ==
    [][\A p \in Procs :
          (pc[p] = "ready" /\ ret'[p] # ret[p] /\ ret'[p].op = "getitem")
              => LET N == data[p].shape[1]
                     i == ret'[p].index
                 IN  /\ ret'[p].kind = "error" <=> (i >= N \/ i < 0 - N)
                     /\ ret'[p].kind = "error" => ret'[p].name = "IndexError"
                     /\ (0 - N <= i /\ i < 0)
                           => /\ ret'[p].img = Feature(p, N + i)
                              /\ ret'[p].target = Target(p, N + i)
                     /\ data'[p] = data[p] /\ targets'[p] = targets[p]
                     /\ pc'[p] = "ready" /\ fs' = fs]_vars

\* C9's case: on N = MaxN >= 1 samples, get(-N-1) failed with an index error.
C9_Witness ==
    /\ pc[1] = "ready" /\ data[1].shape[1] = MaxN /\ MaxN >= 1
    /\ ret[1].op = "getitem" /\ ret[1].index = 0 - MaxN - 1
    /\ ret[1].kind = "error" /\ ret[1].name = "IndexError"

\* C10: for a valid index i, get(i) returns (f(feature[i]), g(target[i])): the
\* transform is called once, on the feature alone, the target transform once,
\* on the target alone; a transform that is None is not called and leaves its
\* component as stored, so with both None the stored pair comes back.
C10_TransformsApplied ==
    \A p \in Procs :
        (pc[p] = "ready" /\ ret[p].op = "getitem" /\ ret[p].kind = "ok" /\ ret[p].index >= 0)
            => LET x == SampleAt(data[p], ret[p].index)
                   y == SampleAt(targets[p], ret[p].index)
               IN  /\ ret[p].img = IF transform[p] = "None" THEN x ELSE F(x)
                   /\ ret[p].target = IF target_transform[p] = "None" THEN y ELSE G(y)
                   /\ ret[p].fcalls = IF transform[p] = "None" THEN 0 ELSE 1
                   /\ ret[p].gcalls = IF target_transform[p] = "None" THEN 0 ELSE 1
                   /\ (transform[p] = "None" /\ target_transform[p] = "None")
                         => (ret[p].img = x /\ ret[p].target = y)

\* C10's case: no transform and a target transform, on a sample that the
\* target transform changes.
C10_Witness ==
    /\ pc[1] = "ready" /\ transform[1] = "None" /\ target_transform[1] = "g"
    /\ ret[1].op = "getitem" /\ ret[1].kind = "ok" /\ ret[1].index = 0
    /\ ret[1].img = SampleAt(data[1], 0)
    /\ ret[1].target = G(SampleAt(targets[1], 0))
    /\ ret[1].target # SampleAt(targets[1], 0)

\* A step that constructs a new object in slot p.
IsConstruct(p) ==
    /\ pc[p] \in {"idle", "ready", "failed"}
    /\ pc'[p] \in {"dl_check", "check"}
    /\ caller'[p] = "init"

\* C11: once an object is ready, nothing but the construction of a new object
\* in its place changes self.data, self.targets or the transforms: not get(),
\* len(), a deprecated-alias read or download().  So every len() returns the
\* one leading dimension, every alias read the one tensor, and every get(i) the
\* pair that the unchanged partition and transforms give for i.
C11_ReadyObjectImmutable ==
    [][\A p \in Procs :
          (data[p] # Unset /\ ~IsConstruct(p))
              => /\ data'[p] = data[p] /\ targets'[p] = targets[p]
                 /\ transform'[p] = transform[p]
                 /\ target_transform'[p] = target_transform[p]
                 /\ ret'[p].op = "len" => ret'[p].value = data[p].shape[1]
                 /\ ret'[p].op = "alias"
                       => ret'[p].value = IF ret'[p].name \in { "train_data", "test_data" }
                                          THEN data[p] ELSE targets[p]
                 /\ (ret'[p].op = "getitem" /\ ret'[p].kind = "ok")
                       => LET N == data[p].shape[1]
                              i == IF ret'[p].index < 0 THEN ret'[p].index + N
                                   ELSE ret'[p].index
                          IN  /\ ret'[p].img = Feature(p, i)
                              /\ ret'[p].target = Target(p, i)]_vars

\* C11's case: a ready object with a transform, read through a deprecated
\* alias after which its features are still what the processed entry holds.
C11_Witness ==
    /\ pc[1] = "ready" /\ transform[1] = "f" /\ data[1].shape[1] = MaxN /\ MaxN > 0
    /\ ret[1].op = "alias" /\ ret[1].name = "test_data"
    /\ ret[1].value = processed[data_file[1]].items[1]

\* The first k URLs' file names, in list order.
FirstUrls(k) == [i \in 1..k |-> urls[i]]

\* C12: a download() that finds any entry missing rebuilds everything, whatever
\* the raw directory holds: it goes on to the fetch loop, has called the Fetcher
\* for all six URLs when the loop is done, and then truncates and rewrites each
\* of the four entries in turn, those already present included, so that on its
\* return every entry is the tuple this very call built.
C12_AnyMissingFullRebuild ==
    /\ [](\A p \in Procs :
            /\ pc[p] \in {"build", "open", "save"} => fetched[p] = urls
            /\ pc[p] \in {"open", "save"}
                  => /\ Len(sets[p]) = Len(entries)
                     /\ \A j \in 1..(idx[p] - 1) :
                           processed[entries[j]] = torch_save(sets[p][j])
            /\ Downloaded(p)
                  => \A j \in 1..Len(entries) :
                        processed[entries[j]] = torch_save(sets[p][j]))
    /\ [][\A p \in Procs :
            /\ (pc[p] = "dl_check" /\ ~AllPresent /\ pc'[p] # pc[p]) => pc'[p] = "mk_raw"
            /\ (pc[p] = "open" /\ pc'[p] # pc[p])
                  => (pc'[p] = "save" /\ processed'[entries[idx[p]]] = Truncated)]_vars

\* C12's case: test_noise_2.pt alone was missing; the rebuild has rewritten
\* training.pt and test_noise_0.pt and is about to overwrite test_noise_1.pt.
C12_Witness ==
    /\ pc[1] = "open" /\ idx[1] = 3
    /\ processed["test_noise_1.pt"].kind = "pickle"
    /\ processed["test_noise_2.pt"] = Absent
    /\ \A f \in RawNames : raw[f] # Absent

\* C13: a Fetcher failure on the k-th URL ends download() and the construction
\* that called it: the Fetcher was called for the first k URLs and no other, no
\* raw file was read, no tuple built, nothing loaded, and the object stays
\* failed until a new one is constructed in its place.
C13_FetchFailureAborts ==
    /\ [](\A p \in Procs :
            (pc[p] = "failed" /\ err[p] = "FetchFailure")
                => /\ Len(fetched[p]) \in 1..Len(urls)
                   /\ fetched[p] = FirstUrls(Len(fetched[p]))
                   /\ sets[p] = << >> /\ reads[p] = {}
                   /\ data[p] = Unset /\ targets[p] = Unset)
    /\ [][\A p \in Procs :
            /\ (/\ pc[p] = "fetch" /\ caller[p] = "init"
                /\ fetched'[p] # fetched[p]
                /\ raw[urls[idx[p]]] = Absent /\ raw' = raw)
                  => (pc'[p] = "failed" /\ err'[p] = "FetchFailure")
            /\ (pc[p] = "failed" /\ pc'[p] # "failed") => IsConstruct(p)]_vars

\* C13's case: the third fetch failed, the first two files are there and the
\* last three are not.
C13_Witness ==
    /\ pc[1] = "failed" /\ err[1] = "FetchFailure" /\ Len(fetched[1]) = 3
    /\ raw[urls[1]] # Absent /\ raw[urls[2]] # Absent
    /\ \A k \in 3..Len(urls) : raw[urls[k]] = Absent

\* C14: every download() that finds the cache absent starts the fetch loop at
\* the first URL and calls the Fetcher for the URLs in list order, whatever raw
\* files are there already; a successful call that puts a file puts what the
\* URL serves at raw/<last path segment of the URL>.
C14_FetchesAllSixInOrder ==
    /\ [](\A p \in Procs :
            /\ \E k \in 0..Len(urls) : fetched[p] = FirstUrls(k)
            /\ pc[p] = "fetch"
                  => (idx[p] \in 1..Len(urls) /\ fetched[p] = FirstUrls(idx[p] - 1))
            /\ pc[p] \in {"build", "open", "save"} => fetched[p] = urls)
    /\ [][\A p \in Procs :
            /\ (pc[p] = "dl_check" /\ ~AllPresent /\ pc'[p] # pc[p])
                  => (pc'[p] = "mk_raw" /\ fetched'[p] = << >>)
            /\ (pc[p] = "mk_proc" /\ pc'[p] # pc[p])
                  => (pc'[p] = "fetch" /\ idx'[p] = 1)
            /\ (pc[p] = "fetch" /\ raw' # raw)
                  => raw' = [raw EXCEPT ![urls[idx[p]]] = remote[urls[idx[p]]]]]_vars

\* C14's case: a retry with all six raw files already there, which has called
\* the Fetcher for the first URL again and goes on to the second.
C14_Witness ==
    /\ pc[1] = "fetch" /\ idx[1] = 2 /\ fetched[1] = << urls[1] >>
    /\ \A f \in RawNames : raw[f] # Absent
    /\ Present = {}

\* The place of the element at indices ix (counted from 0) among the elements
\* of an array of the given shape, the last index running fastest.
RECURSIVE Flat(_, _)
Flat(shape, ix) ==
    IF shape = << >> THEN 1
    ELSE Head(ix) * Prod(Tail(shape)) + Flat(Tail(shape), Tail(ix))

\* The amplitude conversions download() has made so far: source array and
\* tensor returned.
Conversions(p) ==
    { [src |-> raw[sources[j][1]], out |-> sets[p][j].items[1]] : j \in 1..Len(sets[p]) }

\* C15: the amplitude conversion of an array of shape [N,H,W] returns a float
\* tensor of shape [N,1,H,W] with out[n,0,h,w] = src[n,h,w] for all n, h, w,
\* also for N = 0; it raises for no such array.
C15_AmplitudeShape ==
    \A p \in Procs :
        /\ \A c \in Conversions(p) :
              Len(c.src.shape) = 3 =>
                  /\ c.out.shape = << c.src.shape[1], 1, c.src.shape[2], c.src.shape[3] >>
                  /\ c.out.dtype = "float32"
                  /\ Len(c.out.data) = c.src.shape[1] * c.src.shape[2] * c.src.shape[3]
                  /\ \A n \in 0..(c.src.shape[1] - 1), h \in 0..(c.src.shape[2] - 1),
                        w \in 0..(c.src.shape[3] - 1) :
                        c.out.data[Flat(c.out.shape, << n, 0, h, w >>)]
                            = c.src.data[Flat(c.src.shape, << n, h, w >>)]
        /\ (pc[p] = "failed" /\ err[p] \in {"IndexError", "RuntimeError", "IOError"})
              => Len(raw[sources[Len(sets[p]) + 1][1]].shape) # 3

\* C15's case: all four conversions made, the train arrays full and the test
\* arrays empty.
C15_Witness ==
    /\ pc[1] = "open" /\ Len(sets[1]) = 4
    /\ raw["train_amplitudes.npy"].shape = << MaxN, H, W >>
    /\ sets[1][1].items[1].shape = << MaxN, 1, H, W >>
    /\ sets[1][2].items[1].shape = << 0, 1, H, W >>
    /\ MaxN > 0

\* C16 as claimed: the amplitude conversion returns a tensor for no source
\* array of other than three dimensions.
C16_Claimed_FailsUnlessThreeDims ==
    \A p \in Procs : \A c \in Conversions(p) : Len(c.src.shape) = 3

\* The objects other than p that are inside the body of download().
Populating(p) ==
    { q \in Procs \ {p} : pc[q] \in {"mk_raw", "mk_proc", "fetch", "build", "open", "save"} }

\* C17: with two constructions with download=True running at once on an empty
\* root, the gate of download() looks at the four entries only, whatever the
\* other construction is doing, so both can pass it; an entry is truncated
\* only while a populator is between opening it and saving to it; and a
\* construction that loads an entry in that window fails on the truncated file.
C17_CheckAndWritesNotAtomic ==
    /\ [](\A e \in EntryNames :
            processed[e] = Truncated
                => \E q \in Procs : pc[q] = "save" /\ entries[idx[q]] = e)
    /\ [][\A p \in Procs :
            /\ (pc[p] = "dl_check" /\ pc'[p] # "dl_check")
                  => pc'[p] = IF AllPresent THEN "check" ELSE "mk_raw"
            /\ (/\ pc[p] = "load" /\ pc'[p] # "load"
                /\ data_file'[p] \in EntryNames
                /\ processed[data_file'[p]] = Truncated)
                  => /\ pc'[p] = "failed" /\ err'[p] = "EOFError"
                     /\ Populating(p) # {}]_vars

\* C17's case: both constructions passed the gate and fetched all six files;
\* object 2 wrote all four entries, saw them all present and loaded
\* test_noise_2.pt just after object 1, on its own fourth write, had emptied it.
C17_Witness ==
    /\ fetched[1] = urls /\ fetched[2] = urls
    /\ Len(sets[1]) = Len(entries) /\ Len(sets[2]) = Len(entries)
    /\ pc[1] = "save" /\ idx[1] = Len(entries)
    /\ pc[2] = "failed" /\ err[2] = "EOFError"
    /\ data_file[2] = test_file_noise_2
    /\ processed[test_file_noise_2] = Truncated

\* C18: an entry that is present but truncated is never repaired.  While all
\* four entries are present download() returns without touching the root, from
\* __init__ and from the user alike, and no step changes an entry; a
\* construction that selects the truncated entry fails at torch.load and sets
\* no data; one that selects an intact entry becomes ready whatever the state of
\* the other entries; no ready object has a truncated entry behind it.
C18_CorruptEntryNeverRepaired ==
    /\ [](\A p \in Procs : pc[p] = "ready" => processed[data_file[p]].kind = "pickle")
    /\ [][\A p \in Procs :
            /\ (AllPresent /\ \A q \in Procs : Populating(q) = {})
                  => (fs' = fs /\ \A q \in Procs : Populating(q)' = {})
            /\ (pc[p] = "dl_check" /\ pc'[p] # "dl_check" /\ AllPresent)
                  => /\ pc'[p] = IF caller[p] = "init" THEN "check" ELSE "ready"
                     /\ fetched'[p] = << >> /\ reads'[p] = reads[p]
            /\ (pc[p] = "check" /\ pc'[p] # "check" /\ AllPresent) => pc'[p] = "load"
            /\ (pc[p] = "load" /\ pc'[p] # "load" /\ data_file'[p] \in EntryNames)
                  => IF processed[data_file'[p]] = Truncated
                     THEN /\ pc'[p] = "failed" /\ err'[p] = "EOFError"
                          /\ data'[p] = Unset /\ targets'[p] = Unset
                     ELSE pc'[p] = "ready"]_vars

\* C18's case: with all four entries present and the selected one truncated, a
\* construction with download=True fetched nothing and failed at the load.
C18_Witness ==
    /\ AllPresent
    /\ pc[1] = "failed" /\ err[1] = "EOFError"
    /\ download[1] /\ fetched[1] = << >> /\ reads[1] = {data_file[1]}
    /\ processed[data_file[1]] = Truncated
    /\ \A e \in EntryNames \ {data_file[1]} : processed[e].kind = "pickle"

\* C19: an object with train=False and a noise outside {0, 1, 2} has selected no
\* file: its construction failed on the unbound data_file, it holds no data and
\* it has read no processed entry.
C19_NoPartitionForOtherNoise ==
    \A p \in Procs :
        (~train[p] /\ noise[p] \notin {0, 1, 2})
            => /\ pc[p] = "failed" /\ err[p] = "UnboundLocalError"
               /\ data_file[p] = "unbound"
               /\ data[p] = Unset /\ targets[p] = Unset
               /\ reads[p] \cap EntryNames = {}

\* C19's case: all four entries intact, and a construction with train=False and
\* noise 3 has failed.
C19_Witness ==
    /\ \A e \in EntryNames : processed[e].kind = "pickle"
    /\ ~train[1] /\ noise[1] = 3
    /\ pc[1] = "failed" /\ err[1] = "UnboundLocalError"

\* The exceptions a fetch or a conversion ends download() with.
BuildErrors == {"FetchFailure", "IOError", "IndexError", "RuntimeError"}

\* C20: a step changes the processed entries only when an object that has made
\* all six fetches and built all four tuples opens or saves entry idx, and it
\* changes that entry alone; the writes start at training.pt and go on one entry
\* at a time in the order of `entries`, each entry opened and then saved with its
\* own tuple; so a download() that fails in a fetch or a conversion has left
\* every entry as it was, and test_noise_2.pt, the last one _check_exists needs,
\* is touched only after the three before it are written.
C20_WritesAfterAllBuiltInOrder ==
    /\ [](\A p \in Procs :
            pc[p] \in {"open", "save"}
                => /\ fetched[p] = urls /\ Len(sets[p]) = Len(entries)
                   /\ idx[p] \in 1..Len(entries)
                   /\ \A j \in 1..(idx[p] - 1) :
                         processed[entries[j]] = torch_save(sets[p][j]))
    /\ [][/\ processed' # processed
                => \E p \in Procs :
                      /\ pc[p] \in {"open", "save"} /\ pc'[p] # pc[p]
                      /\ \A e \in EntryNames \ {entries[idx[p]]} :
                            processed'[e] = processed[e]
          /\ processed'[test_file_noise_2] # processed[test_file_noise_2]
                => \E p \in Procs :
                      /\ pc[p] \in {"open", "save"} /\ idx[p] = Len(entries)
                      /\ \A j \in 1..(Len(entries) - 1) :
                            processed[entries[j]].kind = "pickle"
          /\ \A p \in Procs :
                /\ (pc[p] # "open" /\ pc'[p] = "open")
                      => idx'[p] = IF pc[p] = "build" THEN 1 ELSE idx[p] + 1
                /\ (pc[p] = "open" /\ pc'[p] # "open")
                      => /\ pc'[p] = "save" /\ idx'[p] = idx[p]
                         /\ processed'[entries[idx[p]]] = Truncated
                /\ (pc[p] = "save" /\ pc'[p] # "save")
                      => processed'[entries[idx[p]]] = torch_save(sets[p][idx[p]])
                /\ (pc'[p] = "failed" /\ pc[p] # "failed" /\ err'[p] \in BuildErrors)
                      => processed' = processed]_vars

\* C20's case: a root holding the first three entries; download() made its six
\* fetches, the last of them failed, and the three entries are still there, the
\* fourth still missing.
C20_Witness ==
    /\ pc[1] = "failed" /\ err[1] = "FetchFailure"
    /\ download[1] /\ Len(fetched[1]) = Len(urls)
    /\ Present = EntryNames \ {test_file_noise_2}
    /\ \A e \in Present : processed[e].kind = "pickle"

====
